---- MODULE Spec2Model ----
(***************************************************************************)
(* A model of pileupTools.py: the conversion of a GATK pileup file into a  *)
(* PED/MAP pair.  Python strings are sequences of one-character strings;   *)
(* a file is the sequence of the strings written to it.                    *)
(***************************************************************************)
EXTENDS Integers, Sequences, FiniteSets, TLC

VARIABLES
    file,              \* the lines of the pileup file, each ending in "\n"
    sample,            \* parse_pileup_file's sample
    base_min_quality,  \* parse_pileup_file's base_min_quality
    pc,                \* where the run (or the function under test) stands
    nread,             \* how many lines the for loop has taken from the file
    ped_file,          \* [writes, closed]
    map_file,          \* [writes, closed]
    ct_good,
    ct_bad,
    line_info,         \* the record of the line in hand (a Python dict)
    allele_called,     \* the last result of find_max_base
    stdout,            \* what print() has put out: [text, args] per call
    accepted,          \* history: the accepted sites, in the order accepted
    max_base_args,     \* history: the arguments find_max_base was called with
    hist               \* history: line_info after each call of check_bases

vars == <<file, sample, base_min_quality, pc, nread, ped_file, map_file, ct_good,
          ct_bad, line_info, allele_called, stdout, accepted, max_base_args, hist>>

-----------------------------------------------------------------------------
(* Bounds of the model. *)

MaxLines == 3
MaxReads == 3
MaxAlleles == 4
MaxPieces == 3
MaxCalls == 2

-----------------------------------------------------------------------------
(* Python's str operations, on sequences of characters. *)

SP == " "
TAB == "\t"
NL == "\n"

Whitespace == {" ", "\t", "\n", "\r", "\f"}

Lower == <<"a","b","c","d","e","f","g","h","i","j","k","l","m",
           "n","o","p","q","r","s","t","u","v","w","x","y","z">>
Capital == <<"A","B","C","D","E","F","G","H","I","J","K","L","M",
             "N","O","P","Q","R","S","T","U","V","W","X","Y","Z">>

UpperChar(c) ==
    IF \E k \in DOMAIN Lower : Lower[k] = c
    THEN Capital[CHOOSE k \in DOMAIN Lower : Lower[k] = c]
    ELSE c

\* s.upper()
Upper(s) == [k \in DOMAIN s |-> UpperChar(s[k])]

\* s.rstrip(chars)
RECURSIVE RStrip(_, _)
RStrip(s, chars) ==
    IF s # <<>> /\ s[Len(s)] \in chars
    THEN RStrip(SubSeq(s, 1, Len(s) - 1), chars)
    ELSE s

StartsWith(s, old) ==
    /\ Len(old) <= Len(s)
    /\ SubSeq(s, 1, Len(old)) = old

\* s.replace(old, new), old non-empty: the occurrences of old are found left
\* to right, each search starting after the previous occurrence.
RECURSIVE Replace(_, _, _)
Replace(s, old, new) ==
    IF s = <<>> THEN <<>>
    ELSE IF StartsWith(s, old)
         THEN new \o Replace(SubSeq(s, Len(old) + 1, Len(s)), old, new)
         ELSE <<s[1]>> \o Replace(Tail(s), old, new)

\* s.find(sep, k), positions counted from 1 and 0 for "not found".
RECURSIVE Find(_, _, _)
Find(s, sep, k) ==
    IF k > Len(s) THEN 0
    ELSE IF s[k] = sep THEN k ELSE Find(s, sep, k + 1)

\* s.split(sep), sep one character: one more part than there are separators,
\* empty parts kept.
RECURSIVE Split(_, _)
Split(s, sep) ==
    LET k == Find(s, sep, 1)
    IN IF k = 0 THEN <<s>>
       ELSE <<SubSeq(s, 1, k - 1)>> \o Split(SubSeq(s, k + 1, Len(s)), sep)

\* ord(c) for the quality characters of the model (Phred+33).
Ord(c) ==
    CASE c = "!" -> 33
      [] c = "5" -> 53
      [] c = "?" -> 63
      [] c = "F" -> 70

-----------------------------------------------------------------------------
(* The functions of pileupTools.py. *)

\* A seeded bug: only the first expected allele compared.
allele_check_first(snp_tuple, allele) == allele = snp_tuple[1]

\* allele_check(snp_tuple, allele)
allele_check(snp_tuple, allele) ==
    allele = snp_tuple[1] \/ allele = snp_tuple[2]

\* Counter(alleles): the distinct characters in the order first seen.
RECURSIVE CounterKeys(_)
CounterKeys(alleles) ==
    IF alleles = <<>> THEN <<>>
    ELSE LET front == CounterKeys(SubSeq(alleles, 1, Len(alleles) - 1))
             c == alleles[Len(alleles)]
         IN IF \E k \in DOMAIN front : front[k] = c THEN front
            ELSE Append(front, c)

CounterCount(alleles, c) == Cardinality({k \in DOMAIN alleles : alleles[k] = c})

\* One step of the sort in most_common: item goes after every entry whose
\* count is at least its own.
RECURSIVE SortedInsert(_, _)
SortedInsert(sorted, item) ==
    IF sorted = <<>> THEN <<item>>
    ELSE IF sorted[1][2] >= item[2]
         THEN <<sorted[1]>> \o SortedInsert(Tail(sorted), item)
         ELSE <<item>> \o sorted

\* Counter(alleles).most_common(): <<character, count>> pairs, the counts
\* descending, equal counts in the order first seen.
RECURSIVE SortByCount(_, _)
SortByCount(alleles, keys) ==
    IF keys = <<>> THEN <<>>
    ELSE SortedInsert(SortByCount(alleles, SubSeq(keys, 1, Len(keys) - 1)),
                      <<keys[Len(keys)], CounterCount(alleles, keys[Len(keys)])>>)

most_common(alleles) == SortByCount(alleles, CounterKeys(alleles))

\* find_max_base raises IndexError at allele_counts[0] on an empty sequence.
find_max_base_raises(alleles) == most_common(alleles) = <<>>

\* max_alleles as the loop of find_max_base leaves it.
max_alleles(alleles) ==
    LET allele_counts == most_common(alleles)
        max_count == allele_counts[1][2]
    IN SelectSeq(allele_counts, LAMBDA each_allele : each_allele[2] = max_count)

\* A seeded bug: the count of the last entry taken for the maximum.
find_max_base_last(alleles) ==
    LET allele_counts == most_common(alleles)
        max_count == allele_counts[Len(allele_counts)][2]
    IN {<<each_allele[1]>> : each_allele \in
           {allele_counts[k] : k \in {j \in DOMAIN allele_counts :
                                         allele_counts[j][2] = max_count}}}

\* find_max_base(alleles): every value random.choice(max_alleles) can return,
\* each a one-character string.
find_max_base(alleles) ==
    {<<max_alleles(alleles)[k][1]>> : k \in DOMAIN max_alleles(alleles)}


AGTC == <<"A", "G", "T", "C">>

\* A seeded bug: the length check one-sided.
check_bases_raises_longer(line_dict) ==
    Len(line_dict.base_qualities) > Len(line_dict.alleles)

\* check_bases raises SystemExit when the two strings differ in length.
check_bases_raises(line_dict) ==
    Len(line_dict.base_qualities) # Len(line_dict.alleles)

\* <<new_alleles, new_quals>> after the iterations 0 .. i-1 of check_bases's loop.
RECURSIVE check_bases_loop(_, _, _, _)
check_bases_loop(current_alleles, current_quals, base_qual_cutoff, i) ==
    IF i = 0 THEN <<<<>>, <<>>>>
    ELSE LET new == check_bases_loop(current_alleles, current_quals,
                                     base_qual_cutoff, i - 1)
             base_qual == Ord(current_quals[i]) - 33
         IN IF /\ base_qual >= base_qual_cutoff
               /\ \E k \in DOMAIN AGTC : AGTC[k] = current_alleles[i]
            THEN <<Append(new[1], current_alleles[i]),
                   Append(new[2], current_quals[i])>>
            ELSE new

\* A seeded bug: the quality test of check_bases strict (> for >=).
check_bases_strict(line_dict, base_qual_cutoff) ==
    LET new == check_bases_loop(line_dict.alleles, line_dict.base_qualities,
                                base_qual_cutoff + 1,
                                Len(line_dict.base_qualities))
    IN [line_dict EXCEPT !.base_qualities = new[2], !.alleles = new[1]]

\* A seeded bug: check_bases returns the record with the qualities unfiltered.
check_bases_quals_kept(line_dict, base_qual_cutoff) ==
    LET new == check_bases_loop(line_dict.alleles, line_dict.base_qualities,
                                base_qual_cutoff,
                                Len(line_dict.base_qualities))
    IN [line_dict EXCEPT !.alleles = new[1]]

\* check_bases(line_dict, base_qual_cutoff), when it does not raise.
check_bases(line_dict, base_qual_cutoff) ==
    LET new == check_bases_loop(line_dict.alleles, line_dict.base_qualities,
                                base_qual_cutoff,
                                Len(line_dict.base_qualities))
    IN [line_dict EXCEPT !.base_qualities = new[2], !.alleles = new[1]]

CHR == <<"c", "h", "r">>
OAR == <<"O", "A", "R">>
CHR_CAP == <<"C", "h", "r">>

\* A seeded bug: the chromosome taken verbatim.
chrom_verbatim(field) == field

\* pileup_line_list[0].replace("chr", "").replace("OAR", "").replace("Chr", "")
chrom_of(field) ==
    Replace(Replace(Replace(field, CHR, <<>>), OAR, <<>>), CHR_CAP, <<>>)

\* filter_line raises IndexError when the tab-separated payload of
\* pileup_line_list[6] has fewer than five parts.
filter_line_raises(pileup_line_list) ==
    Len(Split(pileup_line_list[7], TAB)) < 5

\* filter_line(pileup_line_list), when it does not raise.
filter_line(pileup_line_list) ==
    LET info_cols == Split(pileup_line_list[7], TAB)
        short_snp_name == info_cols[3]
        snp_a == info_cols[4]
        snp_b == RStrip(info_cols[5], {"]"})
    IN [chrom |-> chrom_of(pileup_line_list[1]),
        pos |-> pileup_line_list[2],
        ref_base |-> pileup_line_list[3],
        alleles |-> Upper(pileup_line_list[4]),
        base_qualities |-> pileup_line_list[5],
        snp_name |-> short_snp_name,
        snps |-> <<snp_a, snp_b>>]

REDUCE == <<"[", "R", "E", "D", "U", "C", "E">>

\* A seeded bug: the marker of a six-field line not looked at.
pileup_ok_raises_count(pileup_line_list) == Len(pileup_line_list) \notin {6, 7}

\* pileup_ok raises SystemExit on any shape but the two it knows.
pileup_ok_raises(pileup_line_list) ==
    /\ Len(pileup_line_list) # 7
    /\ ~(Len(pileup_line_list) = 6 /\ pileup_line_list[1] = REDUCE)

\* pileup_ok(pileup_line_list), when it does not raise.
pileup_ok(pileup_line_list) == Len(pileup_line_list) = 7

\* A seeded bug: the sample name written once.
ped_header_once(s) == s \o <<SP, "0", SP, "0", SP, "0", SP, "-", "9">>

\* '{s} {s} 0 0 0 -9'.format(s=sample)
ped_header(s) == s \o <<SP>> \o s \o <<SP, "0", SP, "0", SP, "0", SP, "-", "9">>

\* ' {a} {a}'.format(a=allele_called)
ped_pair(a) == <<SP>> \o a \o <<SP>> \o a

\* A seeded bug: the position and the SNP name of the MAP row swapped.
map_row_swapped(c, s, p) == c \o <<TAB>> \o p \o <<TAB, "0", TAB>> \o s \o <<NL>>

\* '{c}\t{s}\t0\t{p}\n'.format(c=..., s=..., p=...)
map_row(c, s, p) == c \o <<TAB>> \o s \o <<TAB, "0", TAB>> \o p \o <<NL>>


\* A seeded bug: the test for missing data left out.
has_alleles_always(line_dict) == TRUE

\* len(line_info['alleles']) != 0
has_alleles(line_dict) == Len(line_dict.alleles) # 0

-----------------------------------------------------------------------------
(* The inputs of the model. *)

RECURSIVE Join(_, _)
Join(parts, sep) ==
    IF parts = <<>> THEN <<>>
    ELSE IF Len(parts) = 1 THEN parts[1]
         ELSE parts[1] \o <<sep>> \o Join(Tail(parts), sep)

\* The strings over chars of length at most n.
Strings(chars, n) == UNION {[1..k -> chars] : k \in 0..n}

\* A line of the pileup file as the file holds it.
Line(fields) == Join(fields, SP) \o <<NL>>

\* The payload GATK puts in the seventh field.
Payload(snp_name, snp_a, snp_b) ==
    Join(<<<<"[", "R", "O", "D">>, <<"x">>, snp_name, snp_a, snp_b \o <<"]">>>>, TAB)

PileupLines ==
    { \* chr1 100 A AAAAG FFFFF x ..rs1 A G]
      Line(<<CHR \o <<"1">>, <<"1", "0", "0">>, <<"A">>, <<"A", "A", "A", "A", "G">>,
             <<"F", "F", "F", "F", "F">>, <<"x">>,
             Payload(<<"r", "s", "1">>, <<"A">>, <<"G">>)>>),
      \* OAR2 200 G aagg FF?? x ..rs2 A T]
      Line(<<OAR \o <<"2">>, <<"2", "0", "0">>, <<"G">>, <<"a", "a", "g", "g">>,
             <<"F", "F", "?", "?">>, <<"x">>,
             Payload(<<"r", "s", "2">>, <<"A">>, <<"T">>)>>),
      \* Chr3 300 T AAT 555 x ..rs3 A T]
      Line(<<CHR_CAP \o <<"3">>, <<"3", "0", "0">>, <<"T">>, <<"A", "A", "T">>,
             <<"5", "5", "5">>, <<"x">>,
             Payload(<<"r", "s", "3">>, <<"A">>, <<"T">>)>>),
      \* chr4 400 C N*cC F?FF x ..rs4 T C]
      Line(<<CHR \o <<"4">>, <<"4", "0", "0">>, <<"C">>, <<"N", "*", "c", "C">>,
             <<"F", "?", "F", "F">>, <<"x">>,
             Payload(<<"r", "s", "4">>, <<"T">>, <<"C">>)>>),
      \* [REDUCE x x x x 5
      Line(<<REDUCE, <<"x">>, <<"x">>, <<"x">>, <<"x">>, <<"5">>>>),
      \* chr1 100 A AA FF
      Line(<<CHR \o <<"1">>, <<"1", "0", "0">>, <<"A">>, <<"A", "A">>, <<"F", "F">>>>),
      \* chr1 100 A AA FF x
      Line(<<CHR \o <<"1">>, <<"1", "0", "0">>, <<"A">>, <<"A", "A">>, <<"F", "F">>,
             <<"x">>>>),
      \* chr1 500 A AAG FF x ..rs5 A G]
      Line(<<CHR \o <<"1">>, <<"5", "0", "0">>, <<"A">>, <<"A", "A", "G">>,
             <<"F", "F">>, <<"x">>,
             Payload(<<"r", "s", "5">>, <<"A">>, <<"G">>)>>),
      \* chr1 600 A AA FF x [ROD<TAB>x<TAB>rs6
      Line(<<CHR \o <<"1">>, <<"6", "0", "0">>, <<"A">>, <<"A", "A">>, <<"F", "F">>,
             <<"x">>, Join(<<<<"[", "R", "O", "D">>, <<"x">>, <<"r", "s", "6">>>>, TAB)>>) }

Samples == {<<"X", "X", "X">>}
MinQualities == {30, 31}

NoLine ==
    [chrom |-> <<>>, pos |-> <<>>, ref_base |-> <<>>, alleles |-> <<>>,
     base_qualities |-> <<>>, snp_name |-> <<>>, snps |-> <<<<>>, <<>>>>]

NoFile == [writes |-> <<>>, state |-> "unopened"]

-----------------------------------------------------------------------------
(* parse_pileup_file. *)

Init ==
    /\ file \in UNION {[1..n -> PileupLines] : n \in 0..MaxLines}
    /\ sample \in Samples
    /\ base_min_quality \in MinQualities
    /\ pc = "open"
    /\ nread = 0
    /\ ped_file = NoFile
    /\ map_file = NoFile
    /\ ct_good = 0
    /\ ct_bad = 0
    /\ line_info = NoLine
    /\ allele_called = <<>>
    /\ stdout = <<>>
    /\ accepted = <<>>
    /\ max_base_args = <<>>
    /\ hist = <<>>

\* The files opened, the PED header written, the counters set.
Open ==
    /\ pc = "open"
    /\ pc' = "reading"
    /\ map_file' = [writes |-> <<>>, state |-> "open"]
    /\ ped_file' = [writes |-> <<ped_header(sample)>>, state |-> "open"]
    /\ ct_good' = 0
    /\ ct_bad' = 0
    /\ UNCHANGED <<file, sample, base_min_quality, nread, line_info, allele_called,
                   stdout, accepted, max_base_args, hist>>

\* each_record.rstrip().split(" ") of the line the loop takes next
pileup_cols == Split(RStrip(file[nread + 1], Whitespace), SP)

\* The loop takes a line.
Take ==
    /\ pc = "reading"
    /\ nread < Len(file)
    /\ nread' = nread + 1
    /\ UNCHANGED <<file, sample, base_min_quality, hist>>

\* pileup_ok raises: the run ends in SystemExit.
ReadMalformed ==
    /\ Take
    /\ pileup_ok_raises(pileup_cols)
    /\ pc' = "SystemExit"
    /\ UNCHANGED <<ped_file, map_file, ct_good, ct_bad, line_info, allele_called,
                   stdout, accepted, max_base_args>>

\* pileup_ok returns False on the [REDUCE line: a note printed, the line skipped.
ReadReduce ==
    /\ Take
    /\ ~pileup_ok_raises(pileup_cols)
    /\ ~pileup_ok(pileup_cols)
    /\ stdout' = Append(stdout, [text |-> "NB: GATK pileup reporting reduced output",
                                args |-> <<pileup_cols[6]>>])
    /\ UNCHANGED <<pc, ped_file, map_file, ct_good, ct_bad, line_info, allele_called,
                   accepted, max_base_args>>

\* The line is a record.
Record ==
    /\ Take
    /\ ~pileup_ok_raises(pileup_cols)
    /\ pileup_ok(pileup_cols)

\* filter_line, or find_max_base, raises IndexError: the run ends in it.
ReadIndexError ==
    /\ Record
    /\ IF filter_line_raises(pileup_cols)
       THEN UNCHANGED <<line_info, max_base_args>>
       ELSE LET filtered == filter_line(pileup_cols)
                checked == check_bases(filtered, base_min_quality)
            IN /\ ~check_bases_raises(filtered)
               /\ has_alleles(checked)
               /\ find_max_base_raises(checked.alleles)
               /\ line_info' = checked
               /\ max_base_args' = Append(max_base_args, checked.alleles)
    /\ pc' = "IndexError"
    /\ UNCHANGED <<ped_file, map_file, ct_good, ct_bad, allele_called, stdout,
                   accepted>>

\* check_bases raises: the run ends in SystemExit.
ReadQualsDiffer ==
    /\ Record
    /\ ~filter_line_raises(pileup_cols)
    /\ check_bases_raises(filter_line(pileup_cols))
    /\ line_info' = filter_line(pileup_cols)
    /\ pc' = "SystemExit"
    /\ UNCHANGED <<ped_file, map_file, ct_good, ct_bad, allele_called, stdout,
                   accepted, max_base_args>>

\* The record as check_bases returns it.
Checked ==
    /\ Record
    /\ ~filter_line_raises(pileup_cols)
    /\ ~check_bases_raises(filter_line(pileup_cols))
    /\ line_info' = check_bases(filter_line(pileup_cols), base_min_quality)

\* No allele is left: the site failed the filters.
ReadFailedFilters ==
    /\ Checked
    /\ ~has_alleles(line_info')
    /\ ct_bad' = ct_bad + 1
    /\ stdout' = Append(stdout, [text |-> "failed filters", args |-> <<line_info'.snp_name>>])
    /\ UNCHANGED <<pc, ped_file, map_file, ct_good, allele_called, accepted,
                   max_base_args>>

\* find_max_base is called and returns allele.
Called(allele) ==
    /\ allele \in find_max_base(line_info'.alleles)
    /\ allele_called' = allele
    /\ max_base_args' = Append(max_base_args, line_info'.alleles)

\* The called allele is one of the two expected: the site is written.
ReadAccepted ==
    /\ Checked
    /\ has_alleles(line_info')
    /\ ~find_max_base_raises(line_info'.alleles)
    /\ \E allele \in find_max_base(line_info'.alleles) :
        /\ Called(allele)
        /\ allele_check(line_info'.snps, allele)
        /\ ped_file' = [ped_file EXCEPT !.writes = Append(@, ped_pair(allele))]
        /\ map_file' = [map_file EXCEPT !.writes =
               Append(@, map_row(line_info'.chrom, line_info'.snp_name, line_info'.pos))]
        /\ ct_good' = ct_good + 1
        /\ accepted' = Append(accepted, [line |-> nread + 1, site |-> line_info',
                                         allele |-> allele])
        /\ UNCHANGED <<pc, ct_bad, stdout>>

\* The called allele is neither: the site is removed.
ReadTriAllele ==
    /\ Checked
    /\ has_alleles(line_info')
    /\ ~find_max_base_raises(line_info'.alleles)
    /\ \E allele \in find_max_base(line_info'.alleles) :
        /\ Called(allele)
        /\ ~allele_check(line_info'.snps, allele)
        /\ stdout' = Append(stdout, [text |-> "possible tri-allele removed",
                                    args |-> <<line_info'.snp_name>>])
        /\ ct_bad' = ct_bad + 1
        /\ UNCHANGED <<pc, ped_file, map_file, ct_good, accepted>>

\* The file is read through: the files closed, the summary printed.
Close ==
    /\ pc = "reading"
    /\ nread = Len(file)
    /\ map_file' = [map_file EXCEPT !.state = "closed"]
    /\ ped_file' = [writes |-> Append(ped_file.writes, <<NL>>), state |-> "closed"]
    /\ stdout' = Append(stdout, [text |-> "Analysis finished", args |-> <<ct_good, ct_bad>>])
    /\ pc' = "done"
    /\ UNCHANGED <<file, sample, base_min_quality, nread, ct_good, ct_bad, line_info,
                   allele_called, accepted, max_base_args, hist>>

Next ==
    \/ Open
    \/ ReadMalformed
    \/ ReadReduce
    \/ ReadIndexError
    \/ ReadQualsDiffer
    \/ ReadFailedFilters
    \/ ReadAccepted
    \/ ReadTriAllele
    \/ Close

Spec == Init /\ [][Next]_vars


-----------------------------------------------------------------------------
(* The functions called on their own, on inputs drawn from bounded sets. *)

BaseChars == {"A", "G", "T", "C", "N"}
QualChars == {"5", "?", "F"}

\* The part of the state parse_pileup_file alone uses.
NoRun ==
    /\ file = <<>>
    /\ sample \in Samples
    /\ nread = 0
    /\ ped_file = NoFile
    /\ map_file = NoFile
    /\ ct_good = 0
    /\ ct_bad = 0
    /\ stdout = <<>>
    /\ accepted = <<>>

RunUnchanged ==
    UNCHANGED <<file, sample, base_min_quality, nread, ped_file, map_file, ct_good,
                ct_bad, stdout, accepted>>

\* check_bases: a record whose two strings differ in length by at most one.
InitCheckBases ==
    /\ NoRun
    /\ pc = "check_bases"
    /\ base_min_quality \in MinQualities
    /\ \E a \in Strings(BaseChars, MaxReads), q \in Strings(QualChars, MaxReads) :
          /\ Len(a) - Len(q) \in {-1, 0, 1}
          /\ line_info = [NoLine EXCEPT !.alleles = a, !.base_qualities = q,
                                        !.snp_name = <<"r", "s", "1">>]
    /\ hist = <<line_info>>
    /\ allele_called = <<>>
    /\ max_base_args = <<>>

\* line_dict = check_bases(line_dict, base_qual_cutoff) returns.
CheckBasesReturns ==
    /\ pc = "check_bases"
    /\ Len(hist) <= MaxCalls
    /\ ~check_bases_raises(line_info)
    /\ line_info' = check_bases(line_info, base_min_quality)
    /\ hist' = Append(hist, line_info')
    /\ UNCHANGED <<pc, allele_called, max_base_args>>
    /\ RunUnchanged

\* check_bases(line_dict, base_qual_cutoff) raises SystemExit.
CheckBasesRaises ==
    /\ pc = "check_bases"
    /\ Len(hist) <= MaxCalls
    /\ check_bases_raises(line_info)
    /\ pc' = "SystemExit"
    /\ UNCHANGED <<line_info, hist, allele_called, max_base_args>>
    /\ RunUnchanged

NextCheckBases == CheckBasesReturns \/ CheckBasesRaises

SpecCheckBases == InitCheckBases /\ [][NextCheckBases]_vars

\* find_max_base: a sequence of alleles, the empty one among them.
InitFindMaxBase ==
    /\ NoRun
    /\ pc = "find_max_base"
    /\ base_min_quality \in {30}
    /\ \E a \in Strings({AGTC[k] : k \in DOMAIN AGTC}, MaxAlleles) :
          line_info = [NoLine EXCEPT !.alleles = a]
    /\ hist = <<>>
    /\ allele_called = <<>>
    /\ max_base_args = <<>>

\* find_max_base(alleles) returns one of the values random.choice can give.
FindMaxBaseReturns ==
    /\ pc = "find_max_base"
    /\ Len(max_base_args) < MaxCalls
    /\ ~find_max_base_raises(line_info.alleles)
    /\ \E allele \in find_max_base(line_info.alleles) : allele_called' = allele
    /\ max_base_args' = Append(max_base_args, line_info.alleles)
    /\ UNCHANGED <<pc, line_info, hist>>
    /\ RunUnchanged

\* find_max_base(alleles) raises IndexError.
FindMaxBaseRaises ==
    /\ pc = "find_max_base"
    /\ Len(max_base_args) < MaxCalls
    /\ find_max_base_raises(line_info.alleles)
    /\ pc' = "IndexError"
    /\ max_base_args' = Append(max_base_args, line_info.alleles)
    /\ UNCHANGED <<line_info, hist, allele_called>>
    /\ RunUnchanged

NextFindMaxBase == FindMaxBaseReturns \/ FindMaxBaseRaises

SpecFindMaxBase == InitFindMaxBase /\ [][NextFindMaxBase]_vars

\* The pieces the first field of a line is put together from.
ChromPieces ==
    {CHR, OAR, CHR_CAP, <<"c">>, <<"h", "r">>, <<"C">>, <<"O">>, <<"A", "R">>, <<"1">>}

RECURSIVE Concat(_)
Concat(pieces) ==
    IF pieces = <<>> THEN <<>> ELSE pieces[1] \o Concat(Tail(pieces))

\* filter_line: one line, its first field put together from at most
\* MaxPieces pieces, its payload whole or short.
InitFilterLine ==
    /\ sample \in Samples
    /\ nread = 0
    /\ ped_file = NoFile
    /\ map_file = NoFile
    /\ ct_good = 0
    /\ ct_bad = 0
    /\ stdout = <<>>
    /\ accepted = <<>>
    /\ pc = "filter_line"
    /\ base_min_quality \in {30}
    /\ \E pieces \in Strings(ChromPieces, MaxPieces),
          payload \in {Payload(<<"r", "s", "1">>, <<"A">>, <<"G">>),
                       Join(<<<<"[", "R", "O", "D">>, <<"x">>, <<"r", "s", "1">>>>, TAB)} :
          file = <<Line(<<Concat(pieces), <<"1", "0", "0">>, <<"A">>, <<"a", "g">>,
                          <<"F", "F">>, <<"x">>, payload>>)>>
    /\ line_info = NoLine
    /\ hist = <<>>
    /\ allele_called = <<>>
    /\ max_base_args = <<>>

\* filter_line(pileup_cols) returns.
FilterLineReturns ==
    /\ pc = "filter_line"
    /\ ~filter_line_raises(pileup_cols)
    /\ line_info' = filter_line(pileup_cols)
    /\ pc' = "returned"
    /\ UNCHANGED <<hist, allele_called, max_base_args>>
    /\ RunUnchanged

\* filter_line(pileup_cols) raises IndexError.
FilterLineRaises ==
    /\ pc = "filter_line"
    /\ filter_line_raises(pileup_cols)
    /\ pc' = "IndexError"
    /\ UNCHANGED <<line_info, hist, allele_called, max_base_args>>
    /\ RunUnchanged

NextFilterLine == FilterLineReturns \/ FilterLineRaises

SpecFilterLine == InitFilterLine /\ [][NextFilterLine]_vars


-----------------------------------------------------------------------------
(* What the claims are stated with. *)

IsPrefix(s, t) == Len(s) <= Len(t) /\ SubSeq(t, 1, Len(s)) = s

Occurs(sub, s) ==
    \E k \in 1..(Len(s) - Len(sub) + 1) : SubSeq(s, k, k + Len(sub) - 1) = sub

\* The fields of line k of the file.
ColsOf(k) == Split(RStrip(file[k], Whitespace), SP)

\* The loop is about to take a line.
AtLine == pc = "reading" /\ nread < Len(file)

\* The line the loop is about to take is a record whose payload is whole and
\* whose strings agree in length.
AtSoundRecord ==
    /\ AtLine
    /\ Len(pileup_cols) = 7
    /\ Len(Split(pileup_cols[7], TAB)) >= 5
    /\ Len(pileup_cols[4]) = Len(pileup_cols[5])

\* The positions of the line about to be taken that pass both filters.
KeptAt ==
    {k \in DOMAIN pileup_cols[4] :
        /\ Ord(pileup_cols[5][k]) - 33 >= base_min_quality
        /\ Upper(pileup_cols[4])[k] \in {"A", "G", "T", "C"}}

(* C1: a line of 7 fields goes on to extraction; a line of 6 fields whose    *)
(* first is [REDUCE is skipped, the run going on with counters and outputs  *)
(* as they were; every other shape ends the run in the malformed-input      *)
(* error.                                                                   *)
C1_ThreeOutcomes ==
    [][AtLine =>
        LET n == Len(pileup_cols)
            marker == n = 6 /\ pileup_cols[1] = REDUCE
        IN /\ n = 7 =>
                IF Len(Split(pileup_cols[7], TAB)) < 5
                THEN pc' = "IndexError"
                ELSE /\ line_info'.pos = pileup_cols[2]
                     /\ line_info'.ref_base = pileup_cols[3]
                     /\ line_info'.snp_name = Split(pileup_cols[7], TAB)[3]
           /\ marker =>
                /\ pc' = "reading"
                /\ nread' = nread + 1
                /\ UNCHANGED <<ct_good, ct_bad, ped_file, map_file, line_info>>
           /\ (n # 7 /\ ~marker) =>
                /\ pc' = "SystemExit"
                /\ UNCHANGED <<ct_good, ct_bad, ped_file, map_file, line_info>>]_vars

\* A run that accepted a record, skipped a [REDUCE line and then ended on a
\* six-field line that is no marker.
C1_Witness ==
    /\ pc = "SystemExit"
    /\ nread = 3
    /\ ct_good = 1
    /\ \E k \in DOMAIN stdout : stdout[k].text = "NB: GATK pileup reporting reduced output"
    /\ Len(ColsOf(3)) = 6

(* C2: check_bases keeps position i exactly when ord(quality) - 33 is at    *)
(* least the threshold and the allele is one of A, G, T, C; the two strings *)
(* it returns are the kept positions in their order, aligned and of equal   *)
(* length; a record of equal-length strings does not raise.                 *)
C2_KeepsExactly ==
    /\ pc = "SystemExit" => Len(hist[1].alleles) # Len(hist[1].base_qualities)
    /\ Len(hist) >= 2 =>
         LET before == hist[1]
             after == hist[2]
             Keep == {i \in DOMAIN before.alleles :
                         /\ Ord(before.base_qualities[i]) - 33 >= base_min_quality
                         /\ before.alleles[i] \in {"A", "G", "T", "C"}}
             rank(i) == Cardinality({j \in Keep : j <= i})
         IN /\ Len(after.alleles) = Cardinality(Keep)
            /\ Len(after.base_qualities) = Cardinality(Keep)
            /\ \A i \in Keep :
                  /\ after.alleles[rank(i)] = before.alleles[i]
                  /\ after.base_qualities[rank(i)] = before.base_qualities[i]

\* One position kept, one dropped for its allele, one for its quality.
C2_Witness ==
    /\ Len(hist) >= 2
    /\ base_min_quality = 30
    /\ hist[1].alleles = <<"N", "A", "G">>
    /\ hist[1].base_qualities = <<"F", "?", "5">>
    /\ hist[2].alleles = <<"A">>
    /\ hist[2].base_qualities = <<"?">>

(* C9: check_bases applied again with the same threshold raises nothing and *)
(* returns the alleles and qualities the first application returned.        *)
C9_Idempotent ==
    /\ pc = "SystemExit" => Len(hist) = 1
    /\ \A k \in 3..Len(hist) :
          /\ hist[k].alleles = hist[2].alleles
          /\ hist[k].base_qualities = hist[2].base_qualities

\* A second application after a first one that dropped something.
C9_Witness ==
    /\ Len(hist) >= 3
    /\ hist[1].alleles = <<"A", "N", "G">>
    /\ hist[1].base_qualities = <<"F", "F", "5">>
    /\ hist[3].alleles = <<"A">>

(* C3: whatever find_max_base returns for a non-empty sequence is a         *)
(* one-character string whose character occurs in the sequence as often as  *)
(* any character does; only the empty sequence raises.                      *)
C3_ResultHasMaxCount ==
    LET alleles == line_info.alleles
        count(c) == Cardinality({i \in DOMAIN alleles : alleles[i] = c})
    IN /\ pc = "IndexError" => alleles = <<>>
       /\ (pc = "find_max_base" /\ max_base_args # <<>>) =>
             /\ Len(allele_called) = 1
             /\ count(allele_called[1]) > 0
             /\ \A i \in DOMAIN alleles : count(alleles[i]) <= count(allele_called[1])

\* The tie of AAGG settled for G, on a second call.
C3_Witness ==
    /\ line_info.alleles = <<"A", "A", "G", "G">>
    /\ Len(max_base_args) = 2
    /\ allele_called = <<"G">>


(* C4: when a record with alleles left after filtering is taken, the site   *)
(* is accepted exactly when the allele called is one of the two expected    *)
(* alleles: then one string more is written to the PED file and one to the  *)
(* MAP file and ct_good alone grows by one; otherwise ct_bad alone grows by *)
(* one and both files stay as they were.                                    *)
C4_AcceptedIffExpected ==
    [][(AtSoundRecord /\ KeptAt # {}) =>
        LET info_cols == Split(pileup_cols[7], TAB)
            expected == {info_cols[4], RStrip(info_cols[5], {"]"})}
        IN /\ pc' = "reading"
           /\ IF allele_called' \in expected
              THEN /\ Len(ped_file'.writes) = Len(ped_file.writes) + 1
                   /\ IsPrefix(ped_file.writes, ped_file'.writes)
                   /\ Len(map_file'.writes) = Len(map_file.writes) + 1
                   /\ IsPrefix(map_file.writes, map_file'.writes)
                   /\ ct_good' = ct_good + 1
                   /\ ct_bad' = ct_bad
                   /\ Len(accepted') = Len(accepted) + 1
              ELSE /\ ct_bad' = ct_bad + 1
                   /\ UNCHANGED <<ped_file, map_file, ct_good, accepted>>]_vars

\* A run that accepted a site for its second expected allele and removed
\* another as a possible tri-allele.
C4_Witness ==
    /\ \E k \in DOMAIN accepted : accepted[k].allele = accepted[k].site.snps[2]
    /\ \E k \in DOMAIN stdout : stdout[k].text = "possible tri-allele removed"
    /\ ct_good >= 1
    /\ ct_bad >= 1

(* C5: when a record with no allele left after filtering is taken, ct_bad   *)
(* grows by one, "failed filters" is printed, nothing is written to either  *)
(* file and find_max_base is not called; find_max_base is never called with *)
(* an empty sequence.                                                       *)
C5_EmptyIsRejected ==
    /\ [][(AtSoundRecord /\ KeptAt = {}) =>
            /\ pc' = "reading"
            /\ ct_bad' = ct_bad + 1
            /\ stdout' = Append(stdout, [text |-> "failed filters",
                                        args |-> <<Split(pileup_cols[7], TAB)[3]>>])
            /\ UNCHANGED <<ped_file, map_file, ct_good, accepted, max_base_args,
                           allele_called>>]_vars
    /\ [](\A k \in DOMAIN max_base_args : max_base_args[k] # <<>>)

\* A site has failed the filters and another has been called.
C5_Witness ==
    /\ \E k \in DOMAIN stdout : stdout[k].text = "failed filters"
    /\ ct_bad >= 1
    /\ max_base_args # <<>>

(* C6: when the line taken has the wrong shape, or has 7 fields whose       *)
(* allele and quality strings differ in length, the run ends there: both    *)
(* files and both counters stay as they were, and no step follows the end.  *)
C6_AbortsAtLine ==
    /\ [][(/\ AtLine
           /\ LET n == Len(pileup_cols)
              IN \/ n # 7 /\ ~(n = 6 /\ pileup_cols[1] = REDUCE)
                 \/ n = 7 /\ Len(pileup_cols[4]) # Len(pileup_cols[5]))
          => /\ pc' \in {"SystemExit", "IndexError"}
             /\ UNCHANGED <<ped_file, map_file, ct_good, ct_bad, accepted>>]_vars
    /\ [][pc \notin {"SystemExit", "IndexError"}]_vars

\* The run ended on a record whose strings differ in length, after a site
\* was accepted and with a line still unread.
C6_Witness ==
    /\ pc = "SystemExit"
    /\ ct_good >= 1
    /\ Len(map_file.writes) >= 1
    /\ nread < Len(file)
    /\ Len(ColsOf(nread)) = 7
    /\ Len(ColsOf(nread)[4]) # Len(ColsOf(nread)[5])

(* C7: at every point of a run the MAP file holds one row per accepted site *)
(* and the PED file, after its header, one pair per accepted site, in the   *)
(* order of the input: row k is chromosome TAB snp_name TAB 0 TAB position  *)
(* of the k-th accepted site and pair k is its called allele twice; the     *)
(* files only grow at their end.                                            *)
C7_RowsFollowAccepted ==
    /\ [](pc # "open" =>
            /\ ct_good = Len(accepted)
            /\ Len(map_file.writes) = Len(accepted)
            /\ Len(ped_file.writes) = 1 + Len(accepted) + (IF pc = "done" THEN 1 ELSE 0)
            /\ \A k \in DOMAIN accepted :
                  LET site == accepted[k].site
                      cols == ColsOf(accepted[k].line)
                      a == accepted[k].allele
                  IN /\ accepted[k].line <= nread
                     /\ \A j \in 1..(k - 1) : accepted[j].line < accepted[k].line
                     /\ site.pos = cols[2]
                     /\ site.snp_name = Split(cols[7], TAB)[3]
                     /\ site.chrom = Replace(Replace(Replace(cols[1], CHR, <<>>),
                                                     OAR, <<>>), CHR_CAP, <<>>)
                     /\ Len(a) = 1
                     /\ map_file.writes[k] = site.chrom \o <<"\t">> \o site.snp_name
                                               \o <<"\t", "0", "\t">> \o site.pos
                                               \o <<"\n">>
                     /\ ped_file.writes[k + 1] = <<" ", a[1], " ", a[1]>>)
    /\ [][/\ IsPrefix(ped_file.writes, ped_file'.writes)
          /\ IsPrefix(map_file.writes, map_file'.writes)]_vars

\* Two sites accepted with a rejected site between them.
C7_Witness ==
    /\ Len(accepted) = 2
    /\ accepted[1].line = 1
    /\ accepted[2].line = 3
    /\ accepted[1].site.snp_name # accepted[2].site.snp_name
    /\ ct_bad = 1

\* The PED file is the one line of the claim, and both files are closed.
PedIsOneLine ==
    LET content == Concat(ped_file.writes)
        pairs == Concat([k \in DOMAIN accepted |->
                            <<" ">> \o accepted[k].allele \o <<" ">> \o accepted[k].allele])
    IN /\ content = sample \o <<" ">> \o sample
                      \o <<" ", "0", " ", "0", " ", "0", " ", "-", "9">>
                      \o pairs \o <<"\n">>
       /\ \A k \in 1..(Len(content) - 1) : content[k] # "\n"
       /\ ped_file.state = "closed"
       /\ map_file.state = "closed"

RECURSIVE WholeMarkers(_)
WholeMarkers(s) ==
    \/ s = <<>>
    \/ /\ s[1] \notin {"c", "h", "r", "O", "A", "R", "C"}
       /\ WholeMarkers(Tail(s))
    \/ /\ \E m \in {CHR, OAR, CHR_CAP} : StartsWith(s, m)
       /\ WholeMarkers(SubSeq(s, 4, Len(s)))

\* The chromosome holds none of the markers and is what the removals give in
\* each of their six orders.
Stripped(field, chrom) ==
    /\ \A m \in {CHR, OAR, CHR_CAP} : ~Occurs(m, chrom)
    /\ \A x, y, z \in {CHR, OAR, CHR_CAP} :
          (x # y /\ y # z /\ x # z) =>
             chrom = Replace(Replace(Replace(field, x, <<>>), y, <<>>), z, <<>>)

(* C10 as stated: for every first field, the chromosome of the record holds *)
(* none of chr, OAR, Chr and is the same in whatever order the three are    *)
(* removed.                                                                 *)
C10_AsStated == pc = "returned" => Stripped(pileup_cols[1], line_info.chrom)

(* C10 amended: the chromosome is the first field with chr removed, then    *)
(* OAR, then Chr, each in one pass from the left; when the field is made of *)
(* whole markers and of characters no marker holds, the chromosome holds    *)
(* none of the three and is the same in whatever order they are removed.    *)
C10_WholeMarkers ==
    pc = "returned" =>
        /\ line_info.chrom = Replace(Replace(Replace(pileup_cols[1], <<"c", "h", "r">>, <<>>),
                                             <<"O", "A", "R">>, <<>>),
                                     <<"C", "h", "r">>, <<>>)
        /\ WholeMarkers(pileup_cols[1]) => Stripped(pileup_cols[1], line_info.chrom)

\* chrOAR1 has become 1.
C10_Witness ==
    /\ pc = "returned"
    /\ pileup_cols[1] = <<"c", "h", "r", "O", "A", "R", "1">>
    /\ line_info.chrom = <<"1">>

====
